---- MODULE Spec2Model ----
(***************************************************************************)
(* DelayedAsyncTask (src/src/delayed-async-task.ts): a one-time scheduler  *)
(* of a single asynchronous task.  The model holds one handle, the timer   *)
(* it arms, the promises of the JavaScript runtime it relies on (the       *)
(* callable's promise, the promise of _handleTaskExecution, the microtask  *)
(* queue) and a few callers that abort, await and read the handle.         *)
(* A second specification, ManagerSpec, holds the handles made by the      *)
(* README's BackgroundUpdatesManager example.                              *)
(***************************************************************************)
EXTENDS Integers, Sequences, FiniteSets

\* ---------------------------------------------------------------- bounds
MaxDelay == 1
NumCallers == 2
MaxCalls == 3
NumErrors == 1

\* JavaScript's `undefined`: the value of an unassigned field.
Undefined == 0
\* The promise made by `Promise.resolve()`: fresh and already fulfilled.
PromiseResolve == -1

Callers == 1..NumCallers
Delays == 0..MaxDelay
\* The values a callable can throw or reject with; `undefined` is one of them.
ErrorValues == 0..NumErrors

DelayedAsyncTaskStatus ==
    { "PENDING", "EXECUTING", "COMPLETED_SUCCESSFULLY",
      "ABORTED_BEFORE_EXECUTION", "FAILED_DUE_TO_UNCAUGHT_REJECTION" }

TerminalStatus ==
    { "COMPLETED_SUCCESSFULLY", "ABORTED_BEFORE_EXECUTION",
      "FAILED_DUE_TO_UNCAUGHT_REJECTION" }

\* What the callable may do to its own handle while it runs synchronously
\* inside the invocation `this._task()`: nothing, or one call on behalf of a caller.
Reentries ==
    [op : {"none"}, by : {Undefined}]
        \cup [op : {"tryAbort", "await", "stop"}, by : Callers]

\* What one invocation of the callable does: it throws synchronously, or it
\* returns a promise that is pending, already fulfilled or already rejected.
\* While it has not returned or thrown, the callable is "running".
Outcomes ==
    [state : {"pending", "fulfilled"}, value : {Undefined}, during : Reentries]
        \cup [state : {"threw", "rejected"}, value : ErrorValues, during : Reentries]

\* How a pending promise of the callable settles later.
Settlements ==
    [state : {"fulfilled"}, value : {Undefined}]
        \cup [state : {"rejected"}, value : ErrorValues]

VARIABLES
    task,        \* the handle's private fields
    timer,       \* the runtime's timer armed by the constructor
    now,         \* the clock, in delay units
    runs,        \* one record per call of _handleTaskExecution
    reactions,   \* awaits registered on pending promises, in order
    microtasks,  \* the runtime's microtask queue
    escaped,     \* errors that reached the runtime's global error channel
    callers,     \* the callers' positions and what they observed
    history      \* counts of timer callbacks run, successful aborts and calls,
                 \* the trail of the values assigned to the status, and the
                 \* delay the handle was constructed with

\* The README's BackgroundUpdatesManager, which makes one handle per call of
\* scheduleNextJob.
VARIABLES
    fleet,       \* the handles the manager has constructed, in order
    timers,      \* the runtime's timers: timers[id] was armed by fleet[id]
    manager,     \* the manager's private field
    schedules,   \* one record per call of scheduleNextJob
    queue,       \* the runtime's microtask queue
    last         \* the handle the last step operated on

handleVars == <<task, timer, now, runs, reactions, microtasks, escaped, callers, history>>
fleetVars == <<fleet, timers, manager, schedules, queue, last>>
vars == <<handleVars, fleetVars>>

\* The part of the state the handle's code and the runtime read and write.
\* `ret` is the value returned by the last operator applied, `thrown` the
\* exception in flight inside _handleTaskExecution.
World ==
    [ task |-> task, timer |-> timer, runs |-> runs, reactions |-> reactions,
      microtasks |-> microtasks, escaped |-> escaped,
      callers |-> callers, history |-> history,
      thrown |-> [is |-> FALSE, value |-> Undefined], ret |-> Undefined ]

Commit(w) ==
    /\ task' = w.task
    /\ timer' = w.timer
    /\ runs' = w.runs
    /\ reactions' = w.reactions
    /\ microtasks' = w.microtasks
    /\ escaped' = w.escaped
    /\ callers' = w.callers
    /\ history' = w.history
    /\ UNCHANGED fleetVars

\* ------------------------------------------------------- runtime: timers
\* setInterval(callback, delay): a timer that stays armed after it fires.
setInterval(delayTillExecutionMs) ==
    [state |-> "armed", delay |-> delayTillExecutionMs, calls |-> 1, repeat |-> TRUE]

\* setTimeout(callback, delay): one armed one-shot timer.
setTimeout(delayTillExecutionMs) ==
    [state |-> "armed", delay |-> delayTillExecutionMs, calls |-> 1, repeat |-> FALSE]

\* The runtime takes a one-shot timer off its list when it runs the callback.
TimerFired(tm) == IF tm.repeat THEN tm ELSE [tm EXCEPT !.state = "fired"]

\* clearTimeout(id): cancels an armed timer, a no-op otherwise.
clearTimeout(tm, id) ==
    IF id # Undefined /\ tm.state = "armed"
        THEN [tm EXCEPT !.state = "cleared"]
        ELSE tm

\* ----------------------------------------------------- runtime: promises
PromiseState(w, p) ==
    IF p = PromiseResolve THEN "fulfilled"
    ELSE IF p \in 1..Len(w.runs) THEN w.runs[p].promise
    ELSE "pending"

\* The promise p of _handleTaskExecution settles: every await registered on it
\* is queued as a microtask, in registration order.  A rejection nobody awaits
\* is reported on the global error channel.
SettlePromise(w, p, state, value) ==
    LET OnP(r) == r.promise = p
        NotOnP(r) == r.promise # p
        ready == SelectSeq(w.reactions, OnP)
        jobs == [i \in 1..Len(ready) |-> [kind |-> "caller", id |-> ready[i].caller]]
    IN [w EXCEPT
            !.runs[p].promise = state,
            !.runs[p].reason = value,
            !.runs[p].stage = "done",
            !.reactions = SelectSeq(w.reactions, NotOnP),
            !.microtasks = @ \o jobs,
            !.escaped = IF state = "rejected" /\ ready = <<>>
                            THEN @ \cup {value} ELSE @]

\* `await p` by caller c: queued at once when p is settled, registered otherwise.
AwaitPromise(w, p, c) ==
    IF PromiseState(w, p) = "pending"
        THEN [w EXCEPT !.reactions = Append(@, [promise |-> p, caller |-> c])]
        ELSE [w EXCEPT !.microtasks = Append(@, [kind |-> "caller", id |-> c])]

\* --------------------------------------------------- DelayedAsyncTask
\* A constructor that leaves out the delay argument of setTimeout.
constructor_NoDelay(delayTillExecutionMs) ==
    [ task |-> [ _status |-> "PENDING",
                 _timeout |-> 1,
                 _uncaughtRejection |-> Undefined,
                 _currentlyExecutingTaskPromise |-> Undefined ],
      timer |-> setTimeout(0) ]

constructor(delayTillExecutionMs) ==
    [ task |-> [ _status |-> "PENDING",
                 _timeout |-> 1,
                 _uncaughtRejection |-> Undefined,
                 _currentlyExecutingTaskPromise |-> Undefined ],
      timer |-> setTimeout(delayTillExecutionMs) ]

\* An assignment to this._status; the values assigned are kept, in order, in
\* history.trail.
setStatus(w, s) ==
    [w EXCEPT !.task._status = s, !.history.trail = Append(@, s)]

isPending(t) == t._status = "PENDING"
isExecuting(t) == t._status = "EXECUTING"
isAborted(t) == t._status = "ABORTED_BEFORE_EXECUTION"

\* A getter that answers true for every status after EXECUTING.
isCompleted_Finished(t) == t._status \notin {"PENDING", "EXECUTING"}

isCompleted(t) == t._status = "COMPLETED_SUCCESSFULLY"
isUncaughtRejectionOccurred(t) == t._status = "FAILED_DUE_TO_UNCAUGHT_REJECTION"
uncaughtRejection(t) == t._uncaughtRejection

\* tryAbort with a guard that also takes a running task for abortable.
tryAbort_UnlessFinished(w) ==
    IF w.task._status \in {"PENDING", "EXECUTING"}
        THEN [setStatus(w, "ABORTED_BEFORE_EXECUTION") EXCEPT
                       !.timer = clearTimeout(w.timer, w.task._timeout),
                       !.task._timeout = Undefined,
                       !.ret = TRUE]
        ELSE [w EXCEPT !.ret = FALSE]

\* tryAbort without its clearTimeout call.
tryAbort_NoClear(w) ==
    IF w.task._status = "PENDING"
        THEN [setStatus(w, "ABORTED_BEFORE_EXECUTION") EXCEPT
                       !.task._timeout = Undefined,
                       !.ret = TRUE]
        ELSE [w EXCEPT !.ret = FALSE]

\* tryAbort that succeeds again on a handle that is already aborted.
tryAbort_Again(w) ==
    IF w.task._status \in {"PENDING", "ABORTED_BEFORE_EXECUTION"}
        THEN [setStatus(w, "ABORTED_BEFORE_EXECUTION") EXCEPT
                       !.timer = clearTimeout(w.timer, w.task._timeout),
                       !.task._timeout = Undefined,
                       !.ret = TRUE]
        ELSE [w EXCEPT !.ret = FALSE]

\* tryAbort that gives up once the delay has elapsed, whatever the status.
tryAbort_UnlessDue(w) ==
    IF w.task._status = "PENDING" /\ now < w.timer.delay
        THEN [setStatus(w, "ABORTED_BEFORE_EXECUTION") EXCEPT
                       !.timer = clearTimeout(w.timer, w.task._timeout),
                       !.task._timeout = Undefined,
                       !.ret = TRUE]
        ELSE [w EXCEPT !.ret = FALSE]

tryAbort(w) ==
    IF w.task._status = "PENDING"
        THEN [setStatus(w, "ABORTED_BEFORE_EXECUTION") EXCEPT
                       !.timer = clearTimeout(w.timer, w.task._timeout),
                       !.task._timeout = Undefined,
                       !.ret = TRUE]
        ELSE [w EXCEPT !.ret = FALSE]

\* awaitCompletionIfCurrentlyExecuting that ignores the stored promise.
awaitCompletion_AlwaysResolved(w) == [w EXCEPT !.ret = PromiseResolve]

\* awaitCompletionIfCurrentlyExecuting over a completion promise made at
\* construction: a pending handle hands out the promise of the execution to come.
awaitCompletion_FromConstruction(w) ==
    [w EXCEPT !.ret =
        IF w.task._currentlyExecutingTaskPromise # Undefined
            THEN w.task._currentlyExecutingTaskPromise
            ELSE IF w.task._status = "PENDING" THEN Len(w.runs) + 1
            ELSE PromiseResolve]

awaitCompletionIfCurrentlyExecuting(w) ==
    [w EXCEPT !.ret =
        IF w.task._currentlyExecutingTaskPromise # Undefined
            THEN w.task._currentlyExecutingTaskPromise
            ELSE PromiseResolve]

\* ------------------------------------------------------------- callers
IdleCaller ==
    [ pc |-> "idle", op |-> "none", ret |-> FALSE, awaited |-> Undefined,
      statusAtCall |-> "PENDING", settledAtCall |-> FALSE,
      statusAfter |-> "PENDING", outcome |-> "none", seen |-> <<>>,
      taskSettledAtCall |-> FALSE ]

\* The callable's promise has settled and _handleTaskExecution has not yet
\* resumed to process the settlement.
SettlementUnprocessed(w) ==
    \E id \in 1..Len(w.runs) :
        w.runs[id].task \notin {"running", "pending"} /\ w.runs[id].stage # "done"

\* A read of uncaughtRejection that hands the error over and forgets it.
readGetters_Consuming(w) ==
    [w EXCEPT !.ret = << isPending(w.task), isExecuting(w.task), isAborted(w.task),
                         isCompleted(w.task), isUncaughtRejectionOccurred(w.task),
                         uncaughtRejection(w.task) >>,
              !.task._uncaughtRejection = Undefined]

\* One read of each of the five status getters and of uncaughtRejection.
readGetters(w) ==
    [w EXCEPT !.ret = << isPending(w.task), isExecuting(w.task), isAborted(w.task),
                         isCompleted(w.task), isUncaughtRejectionOccurred(w.task),
                         uncaughtRejection(w.task) >>]

\* Caller c reads every getter, twice in a row, and notes what it saw.
callRead(w, c) ==
    LET w1 == readGetters(w)
        w2 == readGetters(w1)
    IN [w2 EXCEPT
            !.callers[c] =
                [IdleCaller EXCEPT !.pc = "continued", !.op = "read",
                                   !.seen = <<w1.ret, w2.ret>>,
                                   !.statusAtCall = w.task._status,
                                   !.statusAfter = w2.task._status],
            !.history.calls = @ + 1]

\* Caller c calls tryAbort() and notes what it returned.
callTryAbort(w, c) ==
    LET w1 == tryAbort(w)
    IN [w1 EXCEPT
            !.callers[c] =
                [IdleCaller EXCEPT !.pc = "continued", !.op = "tryAbort",
                                   !.ret = w1.ret,
                                   !.statusAtCall = w.task._status,
                                   !.statusAfter = w1.task._status],
            !.history.aborts = IF w1.ret THEN @ + 1 ELSE @,
            !.history.calls = @ + 1]

\* Caller c runs `await handle.awaitCompletionIfCurrentlyExecuting()`.
callAwait(w, c) ==
    LET w1 == awaitCompletionIfCurrentlyExecuting(w)
        w2 == AwaitPromise(w1, w1.ret, c)
    IN [w2 EXCEPT
            !.callers[c] =
                [IdleCaller EXCEPT !.pc = "awaiting", !.op = "await",
                                   !.awaited = w1.ret,
                                   !.taskSettledAtCall = SettlementUnprocessed(w),
                                   !.statusAtCall = w.task._status,
                                   !.settledAtCall = PromiseState(w1, w1.ret) # "pending"],
            !.history.calls = @ + 1]

\* Caller c runs the README's stop():
\*   if (!handle.tryAbort()) await handle.awaitCompletionIfCurrentlyExecuting();
callStop(w, c) ==
    LET w0 == tryAbort(w)
        w1 == awaitCompletionIfCurrentlyExecuting(w0)
        w2 == AwaitPromise(w1, w1.ret, c)
    IN IF w0.ret
        THEN [w0 EXCEPT
                !.callers[c] =
                    [IdleCaller EXCEPT !.pc = "continued", !.op = "stop", !.ret = TRUE,
                                       !.statusAtCall = w.task._status,
                                       !.statusAfter = w0.task._status],
                !.history.aborts = @ + 1,
                !.history.calls = @ + 1]
        ELSE [w2 EXCEPT
                !.callers[c] =
                    [IdleCaller EXCEPT !.pc = "awaiting", !.op = "stop",
                                       !.awaited = w1.ret,
                                       !.statusAtCall = w.task._status,
                                       !.settledAtCall = PromiseState(w1, w1.ret) # "pending"],
                !.history.calls = @ + 1]

\* The callable runs synchronously up to its return or throw, and may call
\* the handle it belongs to.
invokeTask(w, during) ==
    CASE during.op = "tryAbort" -> callTryAbort(w, during.by)
      [] during.op = "await" -> callAwait(w, during.by)
      [] during.op = "stop" -> callStop(w, during.by)
      [] OTHER -> w

\* ------------------------------------------- DelayedAsyncTask, execution
\* _handleTaskExecution, line 173: the statement after a successful await.
tryBlock(w) == setStatus(w, "COMPLETED_SUCCESSFULLY")

\* A catch clause that records the status and loses the error.
catchBlock_NoCapture(w, err) ==
    [setStatus(w, "FAILED_DUE_TO_UNCAUGHT_REJECTION") EXCEPT
              !.thrown = [is |-> FALSE, value |-> Undefined]]

\* A catch clause that records the failure and throws the error again.
catchBlock_Rethrow(w, err) ==
    [setStatus(w, "FAILED_DUE_TO_UNCAUGHT_REJECTION") EXCEPT
              !.task._uncaughtRejection = err]

\* A catch clause that schedules another attempt after the failure.
catchBlock_Reschedule(w, err) ==
    [setStatus(w, "FAILED_DUE_TO_UNCAUGHT_REJECTION") EXCEPT
              !.task._uncaughtRejection = err,
              !.task._timeout = 1,
              !.timer = [setTimeout(w.timer.delay) EXCEPT !.calls = w.timer.calls + 1],
              !.thrown = [is |-> FALSE, value |-> Undefined]]

\* _handleTaskExecution, lines 174-176: the catch clause takes the exception.
catchBlock(w, err) ==
    [setStatus(w, "FAILED_DUE_TO_UNCAUGHT_REJECTION") EXCEPT
              !.task._uncaughtRejection = err,
              !.thrown = [is |-> FALSE, value |-> Undefined]]

\* _handleTaskExecution, lines 177-179.
finallyBlock(w) == [w EXCEPT !.task._currentlyExecutingTaskPromise = Undefined]

\* The async function completes: its promise is fulfilled, or rejected with the
\* exception still in flight.
returnFromTaskExecution(w, id) ==
    IF w.thrown.is
        THEN SettlePromise([w EXCEPT !.thrown.is = FALSE], id, "rejected", w.thrown.value)
        ELSE SettlePromise(w, id, "fulfilled", Undefined)

\* The callable raised err (a synchronous throw, or the awaited promise
\* rejected): control passes to the catch clause, then to finally.
raise(w, err) == [w EXCEPT !.thrown = [is |-> TRUE, value |-> err]]

\* _handleTaskExecution up to its first suspension: it invokes the callable
\* and awaits the promise it returned.  A synchronous throw runs catch and
\* finally before the function returns its promise.
_handleTaskExecution(w, outcome) ==
    LET id == Len(w.runs) + 1
        run == [ task |-> "running", value |-> Undefined,
                 stage |-> "awaiting", promise |-> "pending",
                 reason |-> Undefined, invokedIn |-> w.task._status ]
        w1 == [invokeTask([w EXCEPT !.runs = Append(@, run)], outcome.during)
                 EXCEPT !.runs[id].task = outcome.state,
                        !.runs[id].value = outcome.value,
                        !.ret = id]
    IN CASE outcome.state = "threw" ->
                [returnFromTaskExecution(
                    finallyBlock(catchBlock(raise(w1, outcome.value), outcome.value)), id)
                 EXCEPT !.ret = id]
         [] outcome.state = "pending" -> w1
         [] OTHER ->
                [w1 EXCEPT !.microtasks = Append(@, [kind |-> "task", id |-> id])]

\* _handleTaskExecution resumed after `await this._task()`.
resumeTaskExecution(w, id) ==
    LET r == w.runs[id]
        w1 == IF r.task = "fulfilled"
                THEN tryBlock(w)
                ELSE catchBlock(raise(w, r.value), r.value)
    IN returnFromTaskExecution(finallyBlock(w1), id)

\* A timer callback that starts the execution and drops its promise.
TimerCallback_Dangling(w, outcome) ==
    LET w1 == setStatus([w EXCEPT !.task._timeout = Undefined], "EXECUTING")
    IN _handleTaskExecution(w1, outcome)

\* A timer callback that sets the status after it has started the execution.
TimerCallback_StatusLate(w, outcome) ==
    LET w1 == [w EXCEPT !.task._timeout = Undefined]
        w2 == _handleTaskExecution(w1, outcome)
    IN setStatus([w2 EXCEPT !.task._currentlyExecutingTaskPromise = w2.ret],
                 "EXECUTING")

\* The callback given to setTimeout, lines 58-62.
TimerCallback(w, outcome) ==
    LET w1 == setStatus([w EXCEPT !.task._timeout = Undefined], "EXECUTING")
        w2 == _handleTaskExecution(w1, outcome)
    IN [w2 EXCEPT !.task._currentlyExecutingTaskPromise = w2.ret]

\* ------------------------------------------------------------- actions
\* A caller that is not suspended in an await can make a call; the model stops
\* after MaxCalls calls.
CanCall(c) == callers[c].pc # "awaiting" /\ history.calls < MaxCalls

\* No manager is at work next to the handle.
NoManager ==
    /\ fleet = <<>>
    /\ timers = <<>>
    /\ manager = [_delayedBackgroundTask |-> Undefined]
    /\ schedules = <<>>
    /\ queue = <<>>
    /\ last = Undefined

Init ==
    /\ NoManager
    /\ \E d \in Delays :
           LET h == constructor(d)
           IN /\ task = h.task
              /\ timer = h.timer
              /\ now = 0
              /\ runs = <<>>
              /\ reactions = <<>>
              /\ microtasks = <<>>
              /\ escaped = {}
              /\ callers = [c \in Callers |-> IdleCaller]
              /\ history = [fires |-> 0, aborts |-> 0, calls |-> 0,
                            trail |-> <<h.task._status>>, delay |-> d]

\* Time passes.  The clock is followed up to the moment the timer is due.
Tick ==
    /\ now < timer.delay
    /\ now' = now + 1
    /\ UNCHANGED <<task, timer, runs, reactions, microtasks, escaped, callers, history>>
    /\ UNCHANGED fleetVars

\* The runtime runs the due timer's callback, as a task of its own: never
\* while microtasks are queued.
TimerFire ==
    /\ timer.state = "armed"
    /\ now >= timer.delay
    /\ microtasks = <<>>
    /\ \E outcome \in Outcomes :
          /\ outcome.during.op # "none" => CanCall(outcome.during.by)
          /\ Commit(TimerCallback(
                [World EXCEPT !.timer = TimerFired(timer), !.history.fires = @ + 1],
                outcome))
    /\ UNCHANGED now

\* The pending promise returned by the callable settles.
Settle ==
    /\ \E id \in 1..Len(runs), s \in Settlements :
          /\ runs[id].task = "pending"
          /\ runs' = [runs EXCEPT ![id].task = s.state, ![id].value = s.value]
          /\ microtasks' = Append(microtasks, [kind |-> "task", id |-> id])
    /\ UNCHANGED <<task, timer, now, reactions, escaped, callers, history>>
    /\ UNCHANGED fleetVars

\* A caller calls tryAbort().
CallTryAbort(c) ==
    /\ CanCall(c)
    /\ Commit(callTryAbort(World, c))
    /\ UNCHANGED now

\* A caller awaits the handle's completion.
CallAwait(c) ==
    /\ CanCall(c)
    /\ Commit(callAwait(World, c))
    /\ UNCHANGED now

\* A caller reads the getters.
CallRead(c) ==
    /\ CanCall(c)
    /\ Commit(callRead(World, c))
    /\ UNCHANGED now

\* A caller stops the handle.
CallStop(c) ==
    /\ CanCall(c)
    /\ Commit(callStop(World, c))
    /\ UNCHANGED now

\* The runtime runs the first queued microtask: _handleTaskExecution resumes
\* after its await, or a caller resumes after its own.
RunMicrotask ==
    /\ microtasks # <<>>
    /\ LET job == Head(microtasks)
           w == [World EXCEPT !.microtasks = Tail(microtasks)]
       IN IF job.kind = "task"
            THEN Commit(resumeTaskExecution(w, job.id))
            ELSE Commit([w EXCEPT
                    !.callers[job.id].pc = "continued",
                    !.callers[job.id].statusAfter = task._status,
                    !.callers[job.id].outcome = PromiseState(w, callers[job.id].awaited)])
    /\ UNCHANGED now

Next ==
    \/ Tick
    \/ TimerFire
    \/ Settle
    \/ \E c \in Callers : CallTryAbort(c)
    \/ \E c \in Callers : CallAwait(c)
    \/ \E c \in Callers : CallStop(c)
    \/ \E c \in Callers : CallRead(c)
    \/ RunMicrotask

Spec == Init /\ [][Next]_vars

\* The runtime runs queued microtasks, and an invoked callable settles.
FairSpec == Spec /\ WF_vars(RunMicrotask) /\ WF_vars(Settle)

\* ------------------------------------------------------------- helpers
Queued(c) == \E i \in 1..Len(microtasks) : microtasks[i] = [kind |-> "caller", id |-> c]
Registered(c, p) ==
    \E i \in 1..Len(reactions) : reactions[i] = [promise |-> p, caller |-> c]
Invocations == Len(runs)
InFlight == \E id \in 1..Len(runs) : runs[id].stage # "done"
\* The caller awaited the promise handed out by awaitCompletionIfCurrentlyExecuting.
Awaited(c) == callers[c].awaited # Undefined

\* ------------------------------------------------------------------ C1
\* C1: a timer firing and a successful abort never both happen for the handle:
\* once some tryAbort() has returned true the callable is not invoked in any
\* later step, and once the timer callback has run no later tryAbort()
\* returns true.
C1_FireAbortExclusive ==
    /\ [](~(history.aborts > 0 /\ history.fires > 0))
    /\ [][ /\ (history.aborts > 0 => Invocations' = Invocations)
           /\ (history'.fires > 0 => history'.aborts = history.aborts) ]_vars

\* The abort won the race: the delay has elapsed, nothing is queued, a later
\* tryAbort() has returned false, and the callable was never invoked.
C1_Witness ==
    /\ history.aborts = 1
    /\ now >= timer.delay
    /\ microtasks = <<>>
    /\ Invocations = 0
    /\ \E c \in Callers : callers[c].op = "tryAbort" /\ ~callers[c].ret

\* ------------------------------------------------------------------ C2
\* C2: after any sequence of timer events, calls and settlements the callable
\* has been invoked at most once.
C2_InvokedAtMostOnce == Invocations <= 1

\* The one execution has been processed and the callers have used up their calls.
C2_Witness ==
    /\ Invocations = 1
    /\ ~InFlight
    /\ history.calls = MaxCalls
    /\ microtasks = <<>>

\* ------------------------------------------------------------------ C3
\* C3: tryAbort() returns true and leaves the status ABORTED_BEFORE_EXECUTION
\* if and only if it is called while the status is PENDING; called in any
\* other status it returns false and leaves the status as it was.
C3_TryAbortIffPending ==
    \A c \in Callers :
        /\ callers[c].op \in {"tryAbort", "stop"} =>
              (callers[c].ret <=> callers[c].statusAtCall = "PENDING")
        /\ callers[c].op = "tryAbort" =>
              IF callers[c].statusAtCall = "PENDING"
                  THEN callers[c].statusAfter = "ABORTED_BEFORE_EXECUTION"
                  ELSE callers[c].statusAfter = callers[c].statusAtCall

\* One tryAbort() was refused while the task was executing.
C3_Witness ==
    \E c \in Callers :
        /\ callers[c].op = "tryAbort"
        /\ callers[c].statusAtCall = "EXECUTING"
        /\ ~callers[c].ret
        /\ callers[c].statusAfter = "EXECUTING"

\* ------------------------------------------------------------------ C4
\* C4: once the settlement of the callable has been processed, a fulfilment
\* leaves the status COMPLETED_SUCCESSFULLY with uncaughtRejection undefined,
\* and a rejection with E leaves the status FAILED_DUE_TO_UNCAUGHT_REJECTION
\* with uncaughtRejection equal to E.
C4_SettlementRecorded ==
    \A id \in 1..Len(runs) :
        runs[id].stage = "done" =>
            /\ runs[id].task = "fulfilled" =>
                  /\ isCompleted(task)
                  /\ uncaughtRejection(task) = Undefined
            /\ runs[id].task = "rejected" =>
                  /\ isUncaughtRejectionOccurred(task)
                  /\ uncaughtRejection(task) = runs[id].value

\* A rejection with an error object has been processed.
C4_Witness ==
    \E id \in 1..Len(runs) :
        /\ runs[id].stage = "done"
        /\ runs[id].task = "rejected"
        /\ runs[id].value = NumErrors
        /\ uncaughtRejection(task) = NumErrors

\* ------------------------------------------------------------------ C5
\* C5: an error of the callable is contained: the promise of the execution is
\* never rejected, no caller's await of it ends in a rejection, and nothing
\* reaches the global error channel.
C5_ErrorsContained ==
    /\ escaped = {}
    /\ \A id \in 1..Len(runs) : runs[id].promise # "rejected"
    /\ \A c \in Callers : callers[c].outcome # "rejected"

\* A caller that awaited a failing execution has resumed normally.
C5_Witness ==
    \E c \in Callers :
        /\ callers[c].pc = "continued"
        /\ callers[c].awaited \in 1..Len(runs)
        /\ runs[callers[c].awaited].task = "rejected"
        /\ callers[c].outcome = "fulfilled"
        /\ isUncaughtRejectionOccurred(task)

\* ------------------------------------------------------------------ C6
\* C6: when a caller of `if (!tryAbort()) await awaitCompletionIfCurrently-
\* Executing()` continues, the status is terminal and no execution is in
\* flight; the timer is no longer armed, so the callable is not invoked
\* afterwards.
C6_DeterministicShutdown ==
    \A c \in Callers :
        (callers[c].op = "stop" /\ callers[c].pc = "continued") =>
            /\ callers[c].statusAfter \in TerminalStatus
            /\ task._status \in TerminalStatus
            /\ ~InFlight
            /\ timer.state # "armed"

\* ------------------------------------------------------------------ C7
\* C7: a caller that called awaitCompletionIfCurrentlyExecuting() while the
\* status was EXECUTING resumes only after the settlement: on resumption the
\* status is COMPLETED_SUCCESSFULLY or FAILED_DUE_TO_UNCAUGHT_REJECTION.
C7_ResumesAfterSettlement ==
    \A c \in Callers :
        (Awaited(c) /\ callers[c].statusAtCall = "EXECUTING"
                    /\ callers[c].pc = "continued") =>
            callers[c].statusAfter \in
                {"COMPLETED_SUCCESSFULLY", "FAILED_DUE_TO_UNCAUGHT_REJECTION"}

\* ------------------------------------------------------------------ C8
\* C8: awaitCompletionIfCurrentlyExecuting() called in a status other than
\* EXECUTING returns an already resolved promise: the caller's resumption is
\* queued at the call and waits for no later timer or settlement event.
C8_ResolvedWhenNotExecuting ==
    \A c \in Callers :
        (Awaited(c) /\ callers[c].statusAtCall # "EXECUTING") =>
            /\ callers[c].settledAtCall
            /\ callers[c].pc = "awaiting" => Queued(c)
            /\ \A id \in 1..(Len(runs) + 1) : ~Registered(c, id)

\* A caller that awaited a pending handle resumed although the timer never
\* fired.
C8_Witness ==
    \E c \in Callers :
        /\ callers[c].op = "await"
        /\ callers[c].statusAtCall = "PENDING"
        /\ callers[c].pc = "continued"
        /\ history.fires = 0

\* ------------------------------------------------------------------ C9
\* C9: all callers of awaitCompletionIfCurrentlyExecuting() made while the
\* status is EXECUTING receive the one promise of that execution; they stay
\* registered on it while it is pending, and its settlement queues all of
\* them at once, leaving none registered.
C9_SameSignal ==
    \A c \in Callers :
        (Awaited(c) /\ callers[c].statusAtCall = "EXECUTING") =>
            /\ callers[c].awaited \in 1..Len(runs)
            /\ \A d \in Callers :
                  (Awaited(d) /\ callers[d].statusAtCall = "EXECUTING") =>
                      callers[d].awaited = callers[c].awaited
            /\ IF runs[callers[c].awaited].promise = "pending"
                  THEN callers[c].pc = "awaiting" /\ Registered(c, callers[c].awaited)
                  ELSE /\ ~Registered(c, callers[c].awaited)
                       /\ callers[c].pc = "awaiting" => Queued(c)

\* ----------------------------------------------------------------- C10
\* C10: under FairSpec (queued microtasks run, the promise of an invoked
\* callable settles) every caller suspended on the promise returned by
\* awaitCompletionIfCurrentlyExecuting() eventually resumes.
C10_AwaitEventuallyResolves ==
    \A c \in Callers : (callers[c].pc = "awaiting") ~> (callers[c].pc = "continued")

\* A caller that had to wait for a failing execution has resumed.
C10_Witness ==
    \E c \in Callers :
        /\ Awaited(c)
        /\ ~callers[c].settledAtCall
        /\ callers[c].pc = "continued"
        /\ callers[c].statusAfter = "FAILED_DUE_TO_UNCAUGHT_REJECTION"

\* ------------------------------------------------------------- C11
\* C11: the handle's _currentlyExecutingTaskPromise is present exactly when
\* the status is EXECUTING, whether the callable settles asynchronously or
\* throws synchronously when it is invoked.
C11_SignalIffExecuting ==
    (task._currentlyExecutingTaskPromise # Undefined) <=> isExecuting(task)

FailedWithValue ==
    \E id \in 1..Len(runs) :
        /\ runs[id].task \in {"threw", "rejected"}
        /\ runs[id].value # Undefined

C13_TimerLiveIffPending ==
    /\ (task._timeout # Undefined) <=> isPending(task)
    /\ (timer.state = "armed") <=> isPending(task)

\* A successful abort has cancelled the timer and dropped its handle.
C13_Witness ==
    /\ isAborted(task)
    /\ timer.state = "cleared"
    /\ task._timeout = Undefined
    /\ history.aborts = 1

\* ------------------------------------------------------------- C14
\* C14: every change of the status is one of four transitions: PENDING to
\* EXECUTING (the timer fires), PENDING to ABORTED_BEFORE_EXECUTION (a
\* tryAbort() call succeeds), EXECUTING to COMPLETED_SUCCESSFULLY (the
\* callable resolves), EXECUTING to FAILED_DUE_TO_UNCAUGHT_REJECTION (the
\* callable settles with an error); a status that was left is never held
\* again.
C14_FourTransitions ==
    LET trail == history.trail
        Transitions ==
            { <<"PENDING", "EXECUTING">>,
              <<"PENDING", "ABORTED_BEFORE_EXECUTION">>,
              <<"EXECUTING", "COMPLETED_SUCCESSFULLY">>,
              <<"EXECUTING", "FAILED_DUE_TO_UNCAUGHT_REJECTION">> }
        Held(s) == \E i \in 1..Len(trail) : trail[i] = s
    IN /\ trail[1] = "PENDING"
       /\ trail[Len(trail)] = task._status
       /\ \A i \in 1..(Len(trail) - 1) : <<trail[i], trail[i + 1]>> \in Transitions
       /\ \A i, j \in 1..Len(trail) : trail[i] = trail[j] => i = j
       /\ Held("EXECUTING") => history.fires = 1
       /\ Held("ABORTED_BEFORE_EXECUTION") => history.aborts = 1
       /\ Held("COMPLETED_SUCCESSFULLY") =>
              \E id \in 1..Len(runs) : runs[id].task = "fulfilled"
       /\ Held("FAILED_DUE_TO_UNCAUGHT_REJECTION") =>
              \E id \in 1..Len(runs) : runs[id].task \in {"threw", "rejected"}

\* A callable that threw when invoked: the status passed through EXECUTING
\* to FAILED_DUE_TO_UNCAUGHT_REJECTION inside one timer callback.
C14_Witness ==
    /\ history.trail = <<"PENDING", "EXECUTING", "FAILED_DUE_TO_UNCAUGHT_REJECTION">>
    /\ \E id \in 1..Len(runs) : runs[id].task = "threw"
    /\ \E c \in Callers : callers[c].op = "tryAbort" /\ callers[c].statusAtCall = "EXECUTING"

\* ------------------------------------------------------------- C15
\* C15: the three terminal statuses are absorbing: once the status is
\* ABORTED_BEFORE_EXECUTION, COMPLETED_SUCCESSFULLY or
\* FAILED_DUE_TO_UNCAUGHT_REJECTION, every later call and runtime event
\* leaves the status and the captured uncaughtRejection as they are.
C15_TerminalAbsorbing ==
    [][ task._status \in TerminalStatus =>
            /\ task'._status = task._status
            /\ uncaughtRejection(task') = uncaughtRejection(task) ]_vars

\* tryAbort() and an await were made on a failed handle, which still holds
\* its status and the error it captured.
C15_Witness ==
    /\ isUncaughtRejectionOccurred(task)
    /\ uncaughtRejection(task) = NumErrors
    /\ \E c \in Callers :
          /\ callers[c].op = "tryAbort"
          /\ callers[c].statusAtCall = "FAILED_DUE_TO_UNCAUGHT_REJECTION"
    /\ \E c \in Callers :
          /\ callers[c].op = "await"
          /\ callers[c].statusAtCall = "FAILED_DUE_TO_UNCAUGHT_REJECTION"
          /\ callers[c].pc = "continued"

\* ------------------------------------------------------------- C16
\* C16: the status is always one of PENDING, EXECUTING,
\* ABORTED_BEFORE_EXECUTION, COMPLETED_SUCCESSFULLY and
\* FAILED_DUE_TO_UNCAUGHT_REJECTION, and exactly one of the getters isPending,
\* isExecuting, isAborted, isCompleted and isUncaughtRejectionOccurred
\* returns true.
C16_ExactlyOneGetter ==
    LET getters == << isPending(task), isExecuting(task), isAborted(task),
                      isCompleted(task), isUncaughtRejectionOccurred(task) >>
    IN /\ task._status \in DelayedAsyncTaskStatus
       /\ Cardinality({ i \in 1..Len(getters) : getters[i] }) = 1

\* An aborted handle: isAborted is the one getter that answers true.
C16_Witness ==
    /\ task._status = "ABORTED_BEFORE_EXECUTION"
    /\ isAborted(task)
    /\ ~isPending(task) /\ ~isExecuting(task)
    /\ ~isCompleted(task) /\ ~isUncaughtRejectionOccurred(task)

\* ------------------------------------------------------------- C17
\* The state right after construction, for every delay: status PENDING,
\* uncaughtRejection undefined, the callable not invoked, one timer armed by
\* one call of setTimeout.
JustConstructed ==
    (history.calls = 0 /\ history.fires = 0) =>
        /\ isPending(task)
        /\ uncaughtRejection(task) = Undefined
        /\ Invocations = 0
        /\ timer.state = "armed"
        /\ timer.calls = 1
        /\ timer.delay = history.delay

\* C17 (as claimed): for every delay >= 0, construction yields status PENDING
\* with one timer armed, and no other status is observable before the delay
\* has elapsed.
C17_PendingUntilDelay ==
    /\ JustConstructed
    /\ now < history.delay => isPending(task)

\* C17 (amended): for every delay >= 0, construction yields status PENDING
\* with one timer armed; before the delay has elapsed the status is PENDING,
\* or ABORTED_BEFORE_EXECUTION once a tryAbort() call has succeeded, and the
\* callable has not been invoked.
C17_PendingOrAbortedUntilDelay ==
    /\ JustConstructed
    /\ now < history.delay =>
          /\ IF history.aborts = 0 THEN isPending(task) ELSE isAborted(task)
          /\ uncaughtRejection(task) = Undefined
          /\ Invocations = 0

\* A handle with a positive delay was aborted before the delay elapsed.
C17_Witness ==
    /\ history.delay = MaxDelay
    /\ now < history.delay
    /\ isAborted(task)
    /\ history.aborts = 1
    /\ Invocations = 0

\* ------------------------------------------------------------- C18
\* C18: the handle arms the timer once, in its constructor: whatever calls,
\* firing and settlement follow, setTimeout has been called once, and a timer
\* that is no longer armed is never armed again.
C18_ArmedOnce ==
    /\ [](timer.calls = 1)
    /\ [][timer.state # "armed" => timer'.state # "armed"]_vars

\* The timer has fired, calls were made and the execution failed: still one
\* call of setTimeout.
C18_Witness ==
    /\ timer.state = "fired"
    /\ timer.calls = 1
    /\ isUncaughtRejectionOccurred(task)
    /\ history.calls >= 2
    /\ \A id \in 1..Len(runs) : runs[id].stage = "done"

\* ------------------------------------------------------------- C19
\* C19: the callable is invoked only by the timer callback, never before
\* the timer has fired; when it is invoked the status is already EXECUTING,
\* and the status stays EXECUTING until the settlement of the callable has
\* been processed.
C19_ExecutingWhileInvoked ==
    /\ Invocations <= history.fires
    /\ Invocations > 0 => timer.state = "fired" /\ now >= history.delay
    /\ \A id \in 1..Len(runs) :
          /\ runs[id].invokedIn = "EXECUTING"
          /\ runs[id].stage # "done" => isExecuting(task)

\* The callable's promise has been fulfilled and _handleTaskExecution has not
\* resumed yet: the status is still EXECUTING.
C19_Witness ==
    \E id \in 1..Len(runs) :
        /\ runs[id].invokedIn = "EXECUTING"
        /\ runs[id].task = "fulfilled"
        /\ runs[id].stage # "done"
        /\ isExecuting(task)
        /\ history.fires = 1

\* ------------------------------------------------------------- C20
\* C20: a callable that throws synchronously when invoked is handled like
\* one whose promise rejects: the error does not escape the timer callback,
\* the status ends as FAILED_DUE_TO_UNCAUGHT_REJECTION, uncaughtRejection is
\* the thrown value, and the handle is left in the state an asynchronous
\* rejection with the same value leaves it in.
C20_SyncThrowLikeRejection ==
    \A id \in 1..Len(runs) :
        (runs[id].stage = "done" /\ runs[id].task \in {"threw", "rejected"}) =>
            /\ escaped = {}
            /\ runs[id].promise = "fulfilled"
            /\ task = [ _status |-> "FAILED_DUE_TO_UNCAUGHT_REJECTION",
                        _timeout |-> Undefined,
                        _uncaughtRejection |-> runs[id].value,
                        _currentlyExecutingTaskPromise |-> Undefined ]

\* ------------------------------------------------------------- C21
\* C21: reading the five status getters and uncaughtRejection, and calling
\* awaitCompletionIfCurrentlyExecuting(), never changes the handle (status,
\* timer, completion signal, captured failure, execution); two reads with no
\* transition in between return the same values.
C21_ReadsChangeNothing ==
    /\ [](\A c \in Callers :
            callers[c].op = "read" =>
                /\ callers[c].seen[1] = callers[c].seen[2]
                /\ callers[c].statusAfter = callers[c].statusAtCall)
    /\ [][ ( /\ history.calls' = history.calls + 1
             /\ history.fires' = history.fires
             /\ \E c \in Callers :
                    /\ callers'[c] # callers[c]
                    /\ callers'[c].op \in {"read", "await"} )
           => (task' = task /\ timer' = timer /\ runs' = runs) ]_vars

\* One caller has read the getters of a failed handle and seen the captured
\* error twice; another has awaited the handle.
C21_Witness ==
    /\ isUncaughtRejectionOccurred(task)
    /\ uncaughtRejection(task) = NumErrors
    /\ \E c \in Callers :
          /\ callers[c].op = "read"
          /\ callers[c].seen[1][6] = NumErrors
          /\ callers[c].seen[2][6] = NumErrors
    /\ \E c \in Callers : callers[c].op = "await"

\* ------------------------------------------------------------- C22
\* C22: tryAbort() called while the status is EXECUTING returns false and
\* leaves the execution alone: the status stays EXECUTING, the promise of the
\* execution is unchanged, and the handle ends in the terminal status the
\* callable's settlement gives it, as without the call.
C22_AbortWhileExecutingFails ==
    /\ [](\A c \in Callers :
            (callers[c].op = "tryAbort" /\ callers[c].statusAtCall = "EXECUTING") =>
                /\ callers[c].ret = FALSE
                /\ callers[c].statusAfter = "EXECUTING")
    /\ [](\A id \in 1..Len(runs) :
            runs[id].stage = "done" =>
                /\ runs[id].task = "fulfilled" => isCompleted(task)
                /\ runs[id].task \in {"threw", "rejected"} =>
                      isUncaughtRejectionOccurred(task))
    /\ [][ ( /\ isExecuting(task)
             /\ history.calls' = history.calls + 1
             /\ history.fires' = history.fires
             /\ \E c \in Callers :
                    /\ callers'[c] # callers[c]
                    /\ callers'[c].op = "tryAbort" )
           => ( /\ task' = task /\ timer' = timer /\ runs' = runs
                /\ reactions' = reactions /\ microtasks' = microtasks ) ]_vars

\* tryAbort() failed on an executing handle, whose callable then resolved:
\* the handle completed.
C22_Witness ==
    /\ \E c \in Callers :
          /\ callers[c].op = "tryAbort"
          /\ callers[c].statusAtCall = "EXECUTING"
          /\ callers[c].ret = FALSE
    /\ \E id \in 1..Len(runs) : runs[id].stage = "done" /\ runs[id].task = "fulfilled"
    /\ isCompleted(task)

\* ------------------------------------------------ BackgroundUpdatesManager
\* The README's use-case example: a manager whose scheduleNextJob aborts or
\* awaits the handle it made before and then makes a new one.  The clock is
\* not followed here: the dates are the callers' choice, so any armed timer
\* may be the next one due, whatever its delay.
MaxJobs == 3

\* _installNewestUpdates is an async function that does not call the manager
\* or its handle: it never throws synchronously, and the promise it returns
\* is pending, or already settled when it had nothing to wait for.  It
\* rejects with `undefined` or with an error object.
ManagerOutcomes ==
    { o \in Outcomes : /\ o.during.op = "none"
                       /\ o.state # "threw"
                       /\ o.value \in {Undefined, NumErrors} }

\* How its pending promise settles later.
ManagerSettlements ==
    { s \in Settlements : s.value \in {Undefined, NumErrors} }

\* The timer a handle reaches through its _timeout field.
TimerIdOf(fl, h) ==
    IF fl[h].task._timeout # Undefined THEN fl[h].task._timeout ELSE h

\* The part of the state the code of handle h reads and writes.
WorldOf(fl, tms, h) ==
    [ task |-> fl[h].task, timer |-> tms[TimerIdOf(fl, h)],
      runs |-> fl[h].runs, reactions |-> fl[h].reactions,
      microtasks |-> <<>>, escaped |-> {}, callers |-> <<>>,
      history |-> fl[h].history,
      thrown |-> [is |-> FALSE, value |-> Undefined], ret |-> Undefined ]

\* Handles whose status is a static field of the class, shared by all of them.
StoredFleet_StaticStatus(fl, h, w) ==
    [k \in 1..Len(fl) |->
        IF k = h
            THEN [ task |-> w.task, runs |-> w.runs,
                   reactions |-> w.reactions, history |-> w.history ]
            ELSE [fl[k] EXCEPT !.task._status = w.task._status]]

\* The fields are instance fields: what the code of handle h wrote is kept
\* in handle h.
StoredFleet(fl, h, w) ==
    [fl EXCEPT ![h] = [ task |-> w.task, runs |-> w.runs,
                        reactions |-> w.reactions, history |-> w.history ]]

\* The runtime's timer id, as the code of the handle left it.
StoredTimers(tms, id, w) == [tms EXCEPT ![id] = w.timer]

\* The microtasks the code of handle h queued, as the runtime holds them:
\* _handleTaskExecution of h to resume, or a scheduleNextJob call to resume
\* inside _abortIfPossibleOrAwaitCompletion.
Tagged(h, ms) ==
    [i \in 1..Len(ms) |->
        IF ms[i].kind = "task"
            THEN [kind |-> "task", h |-> h, id |-> ms[i].id]
            ELSE [kind |-> "inner", h |-> h, id |-> ms[i].id]]

\* new DelayedAsyncTask(task, msTillNextExecution): the runtime gives the
\* timer a fresh id.
NewTask(fl, d) ==
    LET c == constructor(d)
    IN [ task |-> [c.task EXCEPT !._timeout = Len(fl) + 1],
         runs |-> <<>>, reactions |-> <<>>,
         history |-> [fires |-> 0, aborts |-> 0, calls |-> 0,
                      trail |-> <<c.task._status>>, delay |-> d] ]

\* A call of scheduleNextJob that has not yet come to any exit of
\* _abortIfPossibleOrAwaitCompletion.
NewSchedule ==
    [ pc |-> "awaitingCompletion", reached |-> "none", completed |-> FALSE,
      made |-> Undefined ]

\* _abortIfPossibleOrAwaitCompletion from `const uncaughtError = ...` on: the
\* exit it takes and, at its last statement, what isCompleted answers.
AfterCompletion(fl, cur) ==
    LET uncaughtError == uncaughtRejection(fl[cur].task)
    IN IF uncaughtError # Undefined
        THEN [NewSchedule EXCEPT !.pc = "awaitingAbort", !.reached = "failed"]
        ELSE [NewSchedule EXCEPT !.pc = "awaitingAbort", !.reached = "final",
                                 !.completed = isCompleted(fl[cur].task)]

\* The handle stands alone and is not used.
NoHandle ==
    /\ task = constructor(0).task
    /\ timer = constructor(0).timer
    /\ now = 0
    /\ runs = <<>>
    /\ reactions = <<>>
    /\ microtasks = <<>>
    /\ escaped = {}
    /\ callers = [c \in Callers |-> IdleCaller]
    /\ history = [fires |-> 0, aborts |-> 0, calls |-> 0,
                  trail |-> <<"PENDING">>, delay |-> 0]

ManagerInit ==
    /\ NoHandle
    /\ NoManager

\* scheduleNextJob is called: it runs _abortIfPossibleOrAwaitCompletion up to
\* its return or its await.
ScheduleNextJob ==
    /\ Len(schedules) < MaxJobs
    /\ LET j == Len(schedules) + 1
           cur == manager._delayedBackgroundTask
           outer == [kind |-> "outer", h |-> Undefined, id |-> j]
       IN IF cur = Undefined
            THEN /\ schedules' = Append(schedules,
                        [NewSchedule EXCEPT !.pc = "awaitingAbort", !.reached = "noPrevious"])
                 /\ queue' = Append(queue, outer)
                 /\ last' = Undefined
                 /\ UNCHANGED <<fleet, timers>>
            ELSE LET id == TimerIdOf(fleet, cur)
                     w0 == tryAbort(WorldOf(fleet, timers, cur))
                     w1 == awaitCompletionIfCurrentlyExecuting(w0)
                     w2 == AwaitPromise(w1, w1.ret, j)
                 IN /\ last' = cur
                    /\ IF w0.ret
                        THEN /\ fleet' = StoredFleet(fleet, cur, w0)
                             /\ timers' = StoredTimers(timers, id, w0)
                             /\ schedules' = Append(schedules,
                                    [NewSchedule EXCEPT !.pc = "awaitingAbort",
                                                        !.reached = "aborted"])
                             /\ queue' = Append(queue, outer)
                        ELSE IF isExecuting(w0.task)
                        THEN /\ fleet' = StoredFleet(fleet, cur, w2)
                             /\ timers' = StoredTimers(timers, id, w2)
                             /\ schedules' = Append(schedules, NewSchedule)
                             /\ queue' = queue \o Tagged(cur, w2.microtasks)
                        ELSE /\ schedules' = Append(schedules, AfterCompletion(fleet, cur))
                             /\ queue' = Append(queue, outer)
                             /\ UNCHANGED <<fleet, timers>>
    /\ UNCHANGED manager
    /\ UNCHANGED handleVars

\* The runtime runs the callback of the due timer of handle h.
FleetTimerFire(h) ==
    /\ timers[h].state = "armed"
    /\ queue = <<>>
    /\ \E outcome \in ManagerOutcomes :
          LET fired == [timers EXCEPT ![h] = TimerFired(@)]
              id == TimerIdOf(fleet, h)
              w == TimerCallback(
                      [WorldOf(fleet, fired, h) EXCEPT !.history.fires = @ + 1],
                      outcome)
          IN /\ fleet' = StoredFleet(fleet, h, w)
             /\ timers' = StoredTimers(fired, id, w)
             /\ queue' = Tagged(h, w.microtasks)
    /\ last' = h
    /\ UNCHANGED <<manager, schedules>>
    /\ UNCHANGED handleVars

\* The pending promise of the callable of handle h settles.
FleetSettle(h) ==
    /\ \E id \in 1..Len(fleet[h].runs), s \in ManagerSettlements :
          /\ fleet[h].runs[id].task = "pending"
          /\ fleet' = [fleet EXCEPT ![h].runs[id].task = s.state,
                                    ![h].runs[id].value = s.value]
          /\ queue' = Append(queue, [kind |-> "task", h |-> h, id |-> id])
    /\ last' = h
    /\ UNCHANGED <<timers, manager, schedules>>
    /\ UNCHANGED handleVars

\* The runtime runs the first queued microtask: _handleTaskExecution of a
\* handle resumes, or a scheduleNextJob call resumes after one of its awaits.
FleetRunMicrotask ==
    /\ queue # <<>>
    /\ LET job == Head(queue)
       IN CASE job.kind = "task" ->
                  LET id == TimerIdOf(fleet, job.h)
                      w == resumeTaskExecution(WorldOf(fleet, timers, job.h), job.id)
                  IN /\ fleet' = StoredFleet(fleet, job.h, w)
                     /\ timers' = StoredTimers(timers, id, w)
                     /\ queue' = Tail(queue) \o Tagged(job.h, w.microtasks)
                     /\ last' = job.h
                     /\ UNCHANGED <<manager, schedules>>
            [] job.kind = "inner" ->
                  /\ schedules' = [schedules EXCEPT ![job.id] =
                        AfterCompletion(fleet, manager._delayedBackgroundTask)]
                  /\ queue' = Append(Tail(queue),
                                     [kind |-> "outer", h |-> Undefined, id |-> job.id])
                  /\ last' = Undefined
                  /\ UNCHANGED <<fleet, timers, manager>>
            [] OTHER ->
                  /\ fleet' = Append(fleet, NewTask(fleet, MaxDelay))
                  /\ timers' = Append(timers, setTimeout(MaxDelay))
                  /\ manager' = [manager EXCEPT !._delayedBackgroundTask = Len(fleet) + 1]
                  /\ schedules' = [schedules EXCEPT ![job.id].pc = "done",
                                                    ![job.id].made = Len(fleet) + 1]
                  /\ queue' = Tail(queue)
                  /\ last' = Undefined
    /\ UNCHANGED handleVars

ManagerNext ==
    \/ ScheduleNextJob
    \/ \E h \in 1..Len(fleet) : FleetTimerFire(h)
    \/ \E h \in 1..Len(fleet) : FleetSettle(h)
    \/ FleetRunMicrotask

ManagerSpec == ManagerInit /\ [][ManagerNext]_vars
\* ------------------------------------------------------------- C23
\* C23: handles are isolated: with several handles alive, a timer callback,
\* a tryAbort() call, a settlement or an await on one handle leaves the
\* fields, the timer and the execution of every other handle as they are.
C23_HandlesIsolated ==
    [][ \A k \in 1..Len(fleet) :
            k # last' => (fleet'[k] = fleet[k] /\ timers'[k] = timers[k]) ]_vars

\* Two handles are alive; the second has just been aborted while the first
\* is still PENDING with its timer armed.
C23_Witness ==
    /\ Len(fleet) >= 2
    /\ last = 2
    /\ isAborted(fleet[2].task)
    /\ timers[2].state = "cleared"
    /\ isPending(fleet[1].task)
    /\ timers[1].state = "armed"

\* ------------------------------------------------------------- C24
\* C24: whenever a scheduleNextJob call comes to the last statement of
\* _abortIfPossibleOrAwaitCompletion (tryAbort() returned false, the
\* execution was awaited if it was in progress, uncaughtRejection was falsy),
\* isCompleted of the manager's handle is true, also when scheduleNextJob
\* calls overlap.
C24_FinalMeansCompleted ==
    \A j \in 1..Len(schedules) :
        schedules[j].reached = "final" => schedules[j].completed

\* ------------------------------------------------------------- C25
\* C25: scheduling a new task aborts the task scheduled before that has not
\* started: at any time at most one of the manager's handles is PENDING and
\* at most one is EXECUTING, however scheduleNextJob calls and timer
\* callbacks interleave.
C25_OneScheduledTask ==
    /\ Cardinality({ h \in 1..Len(fleet) : isPending(fleet[h].task) }) <= 1
    /\ Cardinality({ h \in 1..Len(fleet) : isExecuting(fleet[h].task) }) <= 1

\* ------------------------------------------------------------- C26
\* C26: tryAbort() called after the delay has elapsed and before the timer
\* callback has run (status still PENDING) returns true and cancels the due
\* timer, and the callable is never invoked: the status alone decides, not
\* the clock.
C26_AbortOfDueTimer ==
    /\ [](\A c \in Callers :
            (callers[c].op = "tryAbort" /\ callers[c].statusAtCall = "PENDING") =>
                /\ callers[c].ret = TRUE
                /\ callers[c].statusAfter = "ABORTED_BEFORE_EXECUTION")
    /\ [](history.aborts > 0 =>
            /\ Invocations = 0
            /\ history.fires = 0
            /\ timer.state = "cleared")
    /\ [][ ( /\ isPending(task)
             /\ timer.state = "armed"
             /\ now >= timer.delay
             /\ history.calls' = history.calls + 1
             /\ history.fires' = history.fires
             /\ \E c \in Callers :
                    /\ callers'[c] # callers[c]
                    /\ callers'[c].op = "tryAbort" )
           => ( /\ isAborted(task')
                /\ timer'.state = "cleared"
                /\ history'.aborts = history.aborts + 1 ) ]_vars

\* A handle made with delay 0, whose timer was due from the start, was
\* aborted before the callback ran, and calls were made after that.
C26_Witness ==
    /\ history.delay = 0
    /\ now >= history.delay
    /\ history.aborts = 1
    /\ isAborted(task)
    /\ timer.state = "cleared"
    /\ Invocations = 0
    /\ history.calls = MaxCalls

\* ------------------------------------------------------------- C27
\* C27: the promise of the execution is stored before anything outside the
\* timer callback's own synchronous step can run: in no state between steps
\* is the status EXECUTING with _currentlyExecutingTaskPromise empty, no
\* execution is in flight without that promise pending in the field, and a
\* caller that runs in a step of its own and finds the status EXECUTING is
\* given that promise.
C27_SignalCaptured ==
    /\ [](isExecuting(task) =>
            /\ task._currentlyExecutingTaskPromise \in 1..Len(runs)
            /\ runs[task._currentlyExecutingTaskPromise].promise = "pending")
    /\ [](InFlight =>
            /\ isExecuting(task)
            /\ task._currentlyExecutingTaskPromise # Undefined)
    /\ [][ (history.fires' = history.fires /\ history.calls' = history.calls + 1) =>
             \A c \in Callers :
                 ( /\ callers'[c] # callers[c]
                   /\ callers'[c].op \in {"await", "stop"}
                   /\ callers'[c].statusAtCall = "EXECUTING" )
                 => ( /\ task._currentlyExecutingTaskPromise # Undefined
                      /\ callers'[c].awaited = task._currentlyExecutingTaskPromise
                      /\ callers'[c].pc = "awaiting" ) ]_vars

\* An execution is in flight and a caller that stopped the handle from
\* outside is registered on its promise.
C27_Witness ==
    /\ isExecuting(task)
    /\ InFlight
    /\ \E c \in Callers :
          /\ callers[c].op = "stop"
          /\ callers[c].statusAtCall = "EXECUTING"
          /\ Registered(c, task._currentlyExecutingTaskPromise)

\* ------------------------------------------------------------- C28
\* C28: awaitCompletionIfCurrentlyExecuting() called after the callable's
\* promise has settled and before _handleTaskExecution has processed the
\* settlement still finds the status EXECUTING and returns the promise of
\* the execution; the caller resumes only after the handle has recorded the
\* terminal status and cleared the promise.
C28_AwaitBeforeSettlementProcessed ==
    \A c \in Callers :
        (callers[c].op = "await" /\ callers[c].taskSettledAtCall) =>
            /\ callers[c].statusAtCall = "EXECUTING"
            /\ callers[c].awaited \in 1..Len(runs)
            /\ ~callers[c].settledAtCall
            /\ callers[c].pc = "awaiting" =>
                  IF runs[callers[c].awaited].stage # "done"
                      THEN /\ Registered(c, callers[c].awaited)
                           /\ isExecuting(task)
                           /\ task._currentlyExecutingTaskPromise = callers[c].awaited
                      ELSE Queued(c)
            /\ callers[c].pc = "continued" =>
                  /\ callers[c].statusAfter \in
                        {"COMPLETED_SUCCESSFULLY", "FAILED_DUE_TO_UNCAUGHT_REJECTION"}
                  /\ callers[c].outcome = "fulfilled"
                  /\ runs[callers[c].awaited].stage = "done"
                  /\ task._currentlyExecutingTaskPromise = Undefined

\* A caller awaited the handle between the fulfilment of the callable's
\* promise and its processing, and resumed on a completed handle.
C28_Witness ==
    \E c \in Callers :
        /\ callers[c].op = "await"
        /\ callers[c].taskSettledAtCall
        /\ callers[c].pc = "continued"
        /\ callers[c].statusAfter = "COMPLETED_SUCCESSFULLY"
        /\ isCompleted(task)

\* ------------------------------------------------------------- C29
\* C29: a caller that awaits awaitCompletionIfCurrentlyExecuting() while the
\* status is PENDING resumes before the timer callback can run: no timer
\* callback runs between the call and the resumption, and on resumption the
\* status is PENDING or ABORTED_BEFORE_EXECUTION.
C29_PendingAwaitResumesBeforeFire ==
    /\ [](\A c \in Callers :
            (callers[c].op = "await" /\ callers[c].statusAtCall = "PENDING") =>
                /\ callers[c].pc = "awaiting" => Queued(c)
                /\ callers[c].pc = "continued" =>
                      callers[c].statusAfter \in {"PENDING", "ABORTED_BEFORE_EXECUTION"})
    /\ [][ (\E c \in Callers :
                /\ callers[c].op = "await"
                /\ callers[c].statusAtCall = "PENDING"
                /\ callers[c].pc = "awaiting")
           => history'.fires = history.fires ]_vars

\* The timer was due when a caller awaited the pending handle; the caller
\* resumed with the status still PENDING, and the timer callback ran after
\* that.
C29_Witness ==
    /\ history.delay = 0
    /\ history.fires = 1
    /\ \E c \in Callers :
          /\ callers[c].op = "await"
          /\ callers[c].statusAtCall = "PENDING"
          /\ callers[c].pc = "continued"
          /\ callers[c].statusAfter = "PENDING"

\* ------------------------------------------------------------- C30
\* C30: tryAbort() is idempotent in its effect: on a PENDING handle the
\* first call returns true and every further call returns false, and the
\* state after several calls is the state after one: status
\* ABORTED_BEFORE_EXECUTION, timer released, callable never invoked.
C30_TryAbortIdempotent ==
    /\ [](isPending(task) =>
            LET w1 == tryAbort(World)
                w2 == tryAbort(w1)
                w3 == tryAbort(w2)
            IN /\ w1.ret = TRUE /\ w2.ret = FALSE /\ w3.ret = FALSE
               /\ isAborted(w1.task)
               /\ w1.timer.state = "cleared"
               /\ [w2 EXCEPT !.ret = TRUE] = w1
               /\ [w3 EXCEPT !.ret = TRUE] = w1)
    /\ [](history.aborts <= 1)
    /\ [](\A c \in Callers :
            (callers[c].op = "tryAbort"
                /\ callers[c].statusAtCall = "ABORTED_BEFORE_EXECUTION") =>
                    /\ callers[c].ret = FALSE
                    /\ callers[c].statusAfter = "ABORTED_BEFORE_EXECUTION")
    /\ [](isAborted(task) =>
            /\ task._timeout = Undefined
            /\ timer.state = "cleared"
            /\ Invocations = 0
            /\ history.trail = <<"PENDING", "ABORTED_BEFORE_EXECUTION">>)
    /\ [][isAborted(task) => (task' = task /\ timer' = timer /\ runs' = runs)]_vars

\* Both callers called tryAbort() on the handle: the first call returned true,
\* a later one false, and every call of the budget has been made.
C30_Witness ==
    /\ \E c \in Callers :
          /\ callers[c].op = "tryAbort"
          /\ callers[c].statusAtCall = "PENDING"
          /\ callers[c].ret = TRUE
    /\ \E c \in Callers :
          /\ callers[c].op = "tryAbort"
          /\ callers[c].statusAtCall = "ABORTED_BEFORE_EXECUTION"
          /\ callers[c].ret = FALSE
    /\ history.calls = MaxCalls
    /\ isAborted(task)

\* ------------------------------------------------------------- C31
\* C31: the callable has been invoked 0 times while the status is PENDING or
\* ABORTED_BEFORE_EXECUTION and exactly once while it is EXECUTING,
\* COMPLETED_SUCCESSFULLY or FAILED_DUE_TO_UNCAUGHT_REJECTION: a completion
\* or a failure is never reported for a callable that did not run.
C31_StatusCountsInvocations ==
    /\ task._status \in {"PENDING", "ABORTED_BEFORE_EXECUTION"} => Invocations = 0
    /\ task._status \in {"EXECUTING", "COMPLETED_SUCCESSFULLY",
                         "FAILED_DUE_TO_UNCAUGHT_REJECTION"} => Invocations = 1

\* The one invocation completed, and a tryAbort() made while it ran was
\* refused.
C31_Witness ==
    /\ isCompleted(task)
    /\ Invocations = 1
    /\ history.fires = 1
    /\ \E c \in Callers :
          /\ callers[c].op = "tryAbort"
          /\ callers[c].statusAtCall = "EXECUTING"
          /\ callers[c].ret = FALSE
    /\ microtasks = <<>>

\* ------------------------------------------------------------- C32
\* The fairness the handle's progress rests on: the clock advances, the
\* runtime runs the callback of a timer that stays armed and due, it runs
\* queued microtasks, and the promise of an invoked callable settles.
LiveSpec ==
    /\ Spec
    /\ WF_vars(Tick)
    /\ WF_vars(TimerFire)
    /\ WF_vars(RunMicrotask)
    /\ WF_vars(Settle)

\* C32: under LiveSpec the handle eventually reaches a terminal status and
\* stays there, with its timer released and _currentlyExecutingTaskPromise
\* empty.
C32_HandleTerminates ==
    <>[]( /\ task._status \in TerminalStatus
          /\ timer.state # "armed"
          /\ task._timeout = Undefined
          /\ task._currentlyExecutingTaskPromise = Undefined )

\* ------------------------------------------------------------- C33
\* A callable that is suspended (its promise is pending) resumes and runs
\* `await handle.awaitCompletionIfCurrentlyExecuting()` on its own handle.
\* On a pending promise it is registered and cannot settle before that
\* promise does; on a resolved one it goes on.
TaskAwaitsOwnCompletion ==
    /\ \E id \in 1..Len(runs) :
          /\ runs[id].task = "pending"
          /\ LET w == awaitCompletionIfCurrentlyExecuting(World)
             IN IF PromiseState(w, w.ret) = "pending"
                  THEN /\ runs' = [runs EXCEPT ![id].task = "blocked"]
                       /\ reactions' = Append(reactions,
                                              [promise |-> w.ret, caller |-> Undefined])
                  ELSE UNCHANGED <<runs, reactions>>
    /\ UNCHANGED <<task, timer, now, microtasks, escaped, callers, history>>
    /\ UNCHANGED fleetVars

ReentrantNext ==
    \/ Next
    \/ TaskAwaitsOwnCompletion

\* The handle with callables that may await their own handle.
ReentrantSpec == Init /\ [][ReentrantNext]_vars

\* The callable of run id waits for the promise of its own execution.
Blocked(id) ==
    /\ id \in 1..Len(runs)
    /\ runs[id].task = "blocked"

\* C33: a callable that, once suspended, awaits
\* awaitCompletionIfCurrentlyExecuting() of its own handle is given the
\* promise of its own execution, still pending; from then on it never
\* settles, the status stays EXECUTING, and every caller waiting on that
\* promise stays suspended.
C33_SelfAwaitDeadlocks ==
    /\ [](\A id \in 1..Len(runs) :
            runs[id].task \in {"pending", "blocked"} =>
                /\ awaitCompletionIfCurrentlyExecuting(World).ret = id
                /\ runs[id].promise = "pending")
    /\ [](\A id \in 1..Len(runs) :
            Blocked(id) =>
                /\ isExecuting(task)
                /\ task._currentlyExecutingTaskPromise = id
                /\ runs[id].stage # "done"
                /\ \E i \in 1..Len(reactions) :
                      reactions[i] = [promise |-> id, caller |-> Undefined]
                /\ \A c \in Callers :
                      callers[c].awaited = id =>
                          (callers[c].pc = "awaiting" /\ Registered(c, id)))
    /\ [][ \A id \in 1..Len(runs) :
              Blocked(id) => (Blocked(id)' /\ task' = task /\ runs' = runs) ]_vars

\* The deadlock: the callable waits for its own execution, every caller
\* waits for it too, and nothing is queued.
C33_Witness ==
    /\ \E id \in 1..Len(runs) :
          /\ Blocked(id)
          /\ \A c \in Callers : callers[c].pc = "awaiting" /\ Registered(c, id)
    /\ isExecuting(task)
    /\ microtasks = <<>>
    /\ timer.state = "fired"

====
